---------------------------- MODULE Spec2Model ----------------------------
(***************************************************************************)
(* EthGetLogsInvariants of cmd/rpctest/rpctest/bench_ethgetlogs.go: the    *)
(* range driver, the per-block invariant checker and its duplicate check.  *)
(*                                                                         *)
(* The node under test is the environment: every eth_getLogs call draws    *)
(* its outcome (a transport error, an RPC error response, or a log list)   *)
(* from a bounded set.  The progress ticker and the context's cancellation *)
(* are environment events that may happen between any two steps.           *)
(***************************************************************************)
EXTENDS Integers, Sequences, FiniteSets, TLC

(***************************************************************************)
(* Bounds of the model.                                                    *)
(***************************************************************************)
\* Longest log list a node response carries.
MaxLogs == 2
\* Largest log-index value a node response carries.
MaxIndex == 1
\* Longest block range [blockFrom, blockTo) of a run.
MaxSpan == 12
\* Block numbers are uint64; the model keeps the wrap-around at 2^WordBits.
WordBits == 5
\* Longest input, and largest log-index value, of the stand-alone duplicate
\* check.
NDMaxLen == 4
NDMaxIndex == 2
\* Worker-pool benchmarks: tasks and goroutines.
MaxTasks == 3
MaxWorkers == 2

(***************************************************************************)
(* Program constants.                                                      *)
(***************************************************************************)
\* batchEnd := min(bn+10, blockTo)
BatchSize == 10

RECURSIVE Pow2(_)
Pow2(n) == IF n = 0 THEN 1 ELSE 2 * Pow2(n - 1)

\* uint64 arithmetic, scaled to WordBits bits.
Modulus == Pow2(WordBits)

Min(a, b) == IF a < b THEN a ELSE b

(***************************************************************************)
(* Values.                                                                 *)
(***************************************************************************)
Addresses == {"a1", "a2"}
TopicVals == {"t1", "t2"}
\* Only len(l.Topics) == 0 and l.Topics[0] are read by the checker.
TopicLists == {<<>>} \cup {<<t>> : t \in TopicVals}
Indices == 0 .. MaxIndex

\* type Log: the fields the checker reads.
Log == [address : Addresses, topics : TopicLists, index : Indices]
\* The fields the range loop of line 203 reads of an entry.
Entry == [address : Addresses, topics : TopicLists]
\* The field noDuplicates reads of an entry.
IndexOnly == [index : Indices]

NoBlock == -1
NoIndex == -1
NoVal == "-"

RECURSIVE SeqsUpTo(_, _)
SeqsUpTo(S, n) ==
  IF n = 0 THEN {<<>>}
  ELSE LET shorter == SeqsUpTo(S, n - 1)
       IN shorter \cup {Append(s, x) : s \in {t \in shorter : Len(t) = n - 1}, x \in S}

(***************************************************************************)
(* noDuplicates (lines 164-179).                                           *)
(***************************************************************************)
\* slices.Sort(indices): insertion of x into an ascending sequence.
RECURSIVE InsertSorted(_, _)
InsertSorted(x, s) ==
  IF s = <<>> THEN <<x>>
  ELSE IF x <= Head(s) THEN <<x>> \o s
  ELSE <<Head(s)>> \o InsertSorted(x, Tail(s))

RECURSIVE SortAsc(_)
SortAsc(s) == IF s = <<>> THEN <<>> ELSE InsertSorted(Head(s), SortAsc(Tail(s)))

\* indices = append(indices, uint64(logs[i].Index)) for every i.
IndicesOf(logs) == [k \in 1 .. Len(logs) |-> logs[k].index]

\* The first i in 1..len-1 (0-based) with sorted[i-1] == sorted[i], as the
\* index value it names; NoIndex for a nil error.
RECURSIVE ScanAdjacent(_, _)
ScanAdjacent(sorted, k) ==
  IF k > Len(sorted) THEN NoIndex
  ELSE IF sorted[k - 1] = sorted[k] THEN sorted[k]
  ELSE ScanAdjacent(sorted, k + 1)

\* A plausible slip: the scan without the sort.
noDuplicatesUnsorted(logs) ==
  IF Len(logs) <= 1 THEN NoIndex
  ELSE ScanAdjacent(IndicesOf(logs), 2)

noDuplicates(logs) ==
  IF Len(logs) <= 1 THEN NoIndex
  ELSE ScanAdjacent(SortAsc(IndicesOf(logs)), 2)

\* Some two entries carry the same log-index value (the property the
\* duplicate check is about, stated without the algorithm).
HasDup(logs) ==
  \E j, k \in 1 .. Len(logs) : j < k /\ logs[j].index = logs[k].index

\* The log-index values that two or more entries carry.
RepeatedIn(logs) ==
  {logs[j].index : j \in {k \in 1 .. Len(logs) :
                            \E m \in 1 .. Len(logs) : m # k /\ logs[m].index = logs[k].index}}

Max(a, b) == IF a > b THEN a ELSE b

(***************************************************************************)
(* State.                                                                  *)
(***************************************************************************)
VARIABLES
  blockFrom, blockTo,   \* the arguments of EthGetLogsInvariants
  cancelled,            \* ctx.Done() is closed
  tickReady,            \* logEvery.C holds a tick
  pc,                   \* position of the run
  bn,                   \* the block counter of the two loops
  batchEnd,             \* min(bn+10, blockTo) of the current batch
  unf,                  \* resp.Result as decoded at line 190: the entries the
                        \* range loop of line 203 was started on
  dirty,                \* how many leading elements of that slice later decodes
                        \* into resp have written over
  i,                    \* 1-based position of the range loop
  l,                    \* the loop variable: a copy of the current element
  sawAddr, sawTopic,    \* the per-block seen-sets
  result,               \* what the run returned
  addrQ,                \* history: by-address queries issued this block, per address
  pairQ,                \* history: by-(address, topic) queries issued this block, per pair
  blocksQueried,        \* history: block numbers of the unfiltered queries, in order
  methods,              \* history: RPC methods called so far
  bad,                  \* history: some eth_getLogs response was an error, carried a
                        \* repeated index, or was an empty filtered result
  failBn,               \* history: the block whose check returned the failure
  last,                 \* history: the latest eth_getLogs call and how it came back
  clobbered,            \* history: this block's loop read or used a value a decode
                        \* had written over the unfiltered entry's
  inFlight,             \* history: the blocks whose check has started and has not
                        \* completed
  verifiedBefore,       \* history: the addresses a by-address query was issued for
                        \* in the blocks already left
  ndLogs, ndErr,        \* input and result of the stand-alone duplicate check
  totalTasks,           \* cpuBenchmark / ioBenchmark: the arguments
  numGoroutines,
  tasks,                \* the buffer of the channel tasks
  closed,               \* close(tasks) has run
  mpc,                  \* position of the benchmark function
  started,              \* the counter i of the loop that starts the goroutines
  nextTask,             \* the counter taskID of the loop that sends
  wg,                   \* the counter of the WaitGroup
  wpc,                  \* position of each goroutine
  wtask,                \* the taskID each goroutine holds
  processed             \* history: how many times each task id was processed

vars == <<blockFrom, blockTo, cancelled, tickReady, pc, bn, batchEnd, unf, dirty, i, l,
          sawAddr, sawTopic, result, addrQ, pairQ, blocksQueried, methods, bad,
          failBn, last, clobbered, inFlight, verifiedBefore, ndLogs, ndErr,
          totalTasks, numGoroutines, tasks, closed, mpc, started, nextTask, wg, wpc,
          wtask, processed>>

blockVars == <<unf, dirty, i, l, sawAddr, sawTopic, addrQ, pairQ>>
envVars == <<cancelled, tickReady>>
ndVars == <<ndLogs, ndErr>>
poolVars == <<totalTasks, numGoroutines, tasks, closed, mpc, started, nextTask, wg, wpc,
              wtask, processed>>
argVars == <<blockFrom, blockTo>>
histVars == <<blocksQueried, methods, bad, failBn, last, clobbered>>

(***************************************************************************)
(* Results: nil, or the error of one of the fmt.Errorf / ctx.Err() sites,  *)
(* as the values its message carries.                                      *)
(***************************************************************************)
Res(kind, block, address, topic, index) ==
  [kind |-> kind, block |-> block, address |-> address, topic |-> topic,
   index |-> index]

Running == Res("running", NoBlock, NoVal, NoVal, NoIndex)
Success == Res("success", NoBlock, NoVal, NoVal, NoIndex)
\* line 155 / 158
ErrBlockNumber(kind) == Res(kind, NoBlock, NoVal, NoVal, NoIndex)
\* lines 192, 211, 237: "Could not get modified accounts (Erigon): %v"
ErrTransport == Res("transport", NoBlock, NoVal, NoVal, NoIndex)
\* lines 195, 214, 240: "Error getting modified accounts (Erigon): %d %s"
ErrRpc == Res("rpc", NoBlock, NoVal, NoVal, NoIndex)
\* line 198: "eth_getLogs: at blockNum=%d %w"
ErrDupBlock(b, idx) == Res("duplicate-index", b, NoVal, NoVal, idx)
\* line 222: "eth_getLogs: at blockNum=%d and addr %x %w"
ErrDupAddr(b, a, idx) == Res("duplicate-index", b, a, NoVal, idx)
\* line 246: "eth_getLogs: at blockNum=%d and topic %x %w"
ErrDupTopic(b, t, idx) == Res("duplicate-index", b, NoVal, t, idx)
\* line 218: "eth_getLogs: at blockNum=%d account %x not indexed"
ErrAddrNotIndexed(b, a) == Res("address-not-indexed", b, a, NoVal, NoIndex)
\* line 243: "eth_getLogs: at blockNum=%d account %x, topic %x not indexed"
ErrTopicNotIndexed(b, a, t) == Res("topic-not-indexed", b, a, t, NoIndex)
\* line 254: ctx.Err()
ErrCancelled == Res("cancelled", NoBlock, NoVal, NoVal, NoIndex)

(***************************************************************************)
(* The node: what one RPC call can come back with.  An unfiltered response *)
(* is a list of logs.  Of a filtered response the checker reads the        *)
(* length and the log-index column (line 217, noDuplicates); what its      *)
(* address and topics columns do is the subject of the decode below.       *)
(***************************************************************************)
\* The one-block run [0, 1) meets responses of up to MaxLogs entries, the
\* other runs responses of at most one entry.
LogCap == IF blockFrom = 0 /\ blockTo = 1 THEN MaxLogs ELSE 1

Errors == {[err |-> e, logs |-> <<>>] : e \in {"transport", "rpc"}}

UnfilteredOutcomes ==
  Errors \cup {[err |-> "none", logs |-> r] : r \in SeqsUpTo(Log, LogCap)}

FilteredOutcomes ==
  Errors \cup {[err |-> "none", logs |-> r] : r \in SeqsUpTo(IndexOnly, LogCap)}

NoLog == [address |-> NoVal, topics |-> <<>>]

\* The address and topics of the decoded unfiltered entries.
EntriesOf(logs) ==
  [k \in 1 .. Len(logs) |-> [address |-> logs[k].address, topics |-> logs[k].topics]]

(***************************************************************************)
(* reqGen.Erigon(..., &resp) of lines 209 and 235 decodes into the same    *)
(* resp whose Result the range loop of line 203 is iterating.  The range   *)
(* expression was evaluated once, so the loop keeps its length; but        *)
(* encoding/json decodes a JSON array into an existing slice element by    *)
(* element, reusing the slice's array: a response of n entries is written  *)
(* over the first n elements of the array the loop reads.  The loop meets  *)
(* what was written when it reads an element (ReadEntry); what was written *)
(* is for the node to choose, and may equal what was there.                *)
(***************************************************************************)
DecodeInto(d, r) == Max(d, Len(r))

\* l is a copy of element k, and l.Topics shares its array with that
\* element's Topics: the decode of a response whose k-th entry has a first
\* topic t writes t into l.Topics[0].
AliasTopics(e, t) == IF t = NoVal THEN e ELSE [e EXCEPT !.topics = <<t>>]

\* The first topics a decode can write into l.Topics[0] (NoVal: none).
AliasChoices(e, r, k) ==
  IF Len(e.topics) >= 1 /\ k <= Len(r)
  THEN {NoVal} \cup TopicVals
  ELSE {NoVal}

(***************************************************************************)
(* The decisions of the block check, as the error each returns (Running    *)
(* for none).                                                              *)
(***************************************************************************)
\* A plausible slip: the baseline duplicate check of line 197 left out.
UnfilteredVerdictNoDupTest(b, o) ==
  IF o.err = "transport" THEN ErrTransport
  ELSE IF o.err = "rpc" THEN ErrRpc
  ELSE Running

\* lines 190-199: the unfiltered query of block b came back with o.
UnfilteredVerdict(b, o) ==
  IF o.err = "transport" THEN ErrTransport
  ELSE IF o.err = "rpc" THEN ErrRpc
  ELSE IF noDuplicates(o.logs) # NoIndex THEN ErrDupBlock(b, noDuplicates(o.logs))
  ELSE Running

\* A plausible slip: the emptiness test of line 217 left out.
AddrVerdictNoEmptyTest(b, a, o) ==
  IF o.err = "transport" THEN ErrTransport
  ELSE IF o.err = "rpc" THEN ErrRpc
  ELSE IF noDuplicates(o.logs) # NoIndex THEN ErrDupAddr(b, a, noDuplicates(o.logs))
  ELSE Running

\* lines 209-223: the by-address query of (b, a) came back with o.
AddrVerdict(b, a, o) ==
  IF o.err = "transport" THEN ErrTransport
  ELSE IF o.err = "rpc" THEN ErrRpc
  ELSE IF Len(o.logs) = 0 THEN ErrAddrNotIndexed(b, a)
  ELSE IF noDuplicates(o.logs) # NoIndex THEN ErrDupAddr(b, a, noDuplicates(o.logs))
  ELSE Running

\* lines 235-247: the by-(address, topic) query of (b, a, t) came back with
\* o; tAfter is l.Topics[0] as it reads after the decode.
TopicVerdict(b, a, t, tAfter, o) ==
  IF o.err = "transport" THEN ErrTransport
  ELSE IF o.err = "rpc" THEN ErrRpc
  ELSE IF Len(o.logs) = 0 THEN ErrTopicNotIndexed(b, a, t)
  ELSE IF noDuplicates(o.logs) # NoIndex THEN ErrDupTopic(b, tAfter, noDuplicates(o.logs))
  ELSE Running

\* A plausible slip: no seen-set test for the address.
AddrSeenNever(e, seen) == FALSE

\* lines 204-206: if _, ok := sawAddr[l.Address]; ok { continue }
AddrSeen(e, seen) == e.address \in seen

\* A plausible slip: no seen-set test for the topic.
TopicSeenNever(e, seen) == FALSE

\* lines 230-232: if _, ok := sawTopic[l.Topics[0]]; ok { continue }
TopicSeen(e, seen) == e.topics[1] \in seen

\* A plausible slip: the range taken as closed.
InRangeInclusive(b, to) == b <= to

\* lines 181 and 186: bn < blockTo, bn < batchEnd
InRange(b, to) == b < to

\* A plausible slip: the batch end not clamped to blockTo.
BatchEndUnclamped(b, to) == (b + BatchSize) % Modulus

\* line 182: batchEnd := min(bn+10, blockTo), in uint64
BatchEndOf(b, to) == Min((b + BatchSize) % Modulus, to)

\* A plausible slip: the error is kept but the loop goes on to the block
\* boundary (as a task of the errgroup would let the others run).
PcAfterErrorDeferred == "select"

\* A return statement with an error ends the run.
PcAfterError == "done"

\* A plausible slip: ctx.Done() also looked at before a block's first query.
CancelPointEarly(p) == p \in {"select", "inner"}

\* lines 250-254: ctx.Done() is read by the select after a block's checks
\* and nowhere else.
CancelPoint(p) == p = "select"

\* A plausible slip: the seen-sets made once, before the loops.
KeepSeenSet(old) == old

\* lines 201-202: the seen-sets are made anew inside the body of the inner
\* loop, whatever the ones of the block before held.
NewSeenSet(old) == {}

\* line 184: eg.SetLimit(estimate.AlmostAllCPUs()): the least value the cap
\* on block checks in flight can take.
MinLimit == 1

\* The checks in flight.  The check of block b starts with its unfiltered
\* query (line 190) and ends when control leaves the body of the inner loop
\* for b: at a return or at the bn++ of line 186.
StartCheck(S, b) == S \cup {b}

\* A plausible slip: the check is handed over and never waited for.
EndCheckNever(S, b) == S

EndCheck(S, b) == S \ {b}

NoQueries == [a \in Addresses |-> 0]
NoPairQueries == [p \in Addresses \X TopicVals |-> 0]
NoCall == [kind |-> "none", block |-> NoBlock, address |-> NoVal, topic |-> NoVal,
           class |-> "none", dups |-> {}]

\* How a response came back, stated without the checker's algorithm.
Class(o, filtered) ==
  IF o.err # "none" THEN o.err
  ELSE IF filtered /\ o.logs = <<>> THEN "empty"
  ELSE IF HasDup(o.logs) THEN "dup"
  ELSE "ok"

Call(kind, b, a, t, o) ==
  [kind |-> kind, block |-> b, address |-> a, topic |-> t,
   class |-> Class(o, kind # "unfiltered"), dups |-> RepeatedIn(o.logs)]

(***************************************************************************)
(* Initial states: the run is about to start.                              *)
(***************************************************************************)
\* No benchmark is running.
Workers == 1 .. MaxWorkers
TaskIds == 0 .. (MaxTasks - 1)
NoTask == -1
PoolOff ==
  /\ totalTasks = 0
  /\ numGoroutines = 0
  /\ tasks = <<>>
  /\ closed = FALSE
  /\ mpc = "off"
  /\ started = 0
  /\ nextTask = 0
  /\ wg = 0
  /\ wpc = [w \in Workers |-> "none"]
  /\ wtask = [w \in Workers |-> NoTask]
  /\ processed = [t \in TaskIds |-> 0]

Froms == {0, Modulus - MaxSpan}

Init ==
  /\ blockFrom \in Froms
  /\ blockTo \in blockFrom .. Min(blockFrom + MaxSpan, Modulus - 1)
  /\ cancelled = FALSE
  /\ tickReady = FALSE
  /\ pc = "start"
  /\ bn = blockFrom
  /\ batchEnd = blockFrom
  /\ unf = <<>>
  /\ dirty = 0
  /\ i = 1
  /\ l = NoLog
  /\ sawAddr = {}
  /\ sawTopic = {}
  /\ result = Running
  /\ addrQ = NoQueries
  /\ pairQ = NoPairQueries
  /\ blocksQueried = <<>>
  /\ methods = {}
  /\ bad = FALSE
  /\ failBn = NoBlock
  /\ last = NoCall
  /\ clobbered = FALSE
  /\ inFlight = {}
  /\ verifiedBefore = {}
  /\ ndLogs = <<>>
  /\ ndErr = NoIndex
  /\ PoolOff

(***************************************************************************)
(* Environment.                                                            *)
(***************************************************************************)
\* The 20-second ticker of line 161 fires (its channel holds one tick).
\* Only the select of line 250 reads the channel: a tick that arrived
\* earlier is still there when the select runs, so ticks are let arrive
\* at the select.
Tick ==
  /\ pc = "select"
  /\ ~tickReady
  /\ tickReady' = TRUE
  /\ UNCHANGED <<argVars, cancelled, pc, bn, batchEnd, blockVars, result, histVars,
                 inFlight, verifiedBefore, ndVars, poolVars>>

\* The caller cancels ctx.
Cancel ==
  /\ pc \notin {"done", "nd", "nd-done"}
  /\ ~cancelled
  /\ cancelled' = TRUE
  /\ UNCHANGED <<argVars, tickReady, pc, bn, batchEnd, blockVars, result, histVars,
                 inFlight, verifiedBefore, ndVars, poolVars>>

(***************************************************************************)
(* EthGetLogsInvariants.                                                   *)
(***************************************************************************)
\* lines 152-162: the eth_blockNumber call before the loops.
BlockNumber ==
  /\ pc = "start"
  /\ methods' = methods \cup {"eth_blockNumber"}
  /\ \E o \in {"none", "transport", "rpc"} :
       IF o = "none"
       THEN /\ pc' = "outer"
            /\ result' = result
       ELSE /\ pc' = "done"
            /\ result' = ErrBlockNumber(IF o = "transport" THEN "blocknumber-transport"
                                        ELSE "blocknumber-rpc")
  /\ bn' = blockFrom
  /\ UNCHANGED <<argVars, envVars, batchEnd, blockVars, blocksQueried, bad, failBn,
                 last, clobbered, inFlight, verifiedBefore, ndVars, poolVars>>

\* lines 181-184 and 266: the head of the outer loop.
OuterLoop ==
  /\ pc = "outer"
  /\ IF InRange(bn, blockTo)
     THEN /\ batchEnd' = BatchEndOf(bn, blockTo)
          /\ pc' = "inner"
          /\ result' = result
     ELSE /\ batchEnd' = batchEnd
          /\ pc' = "done"
          /\ result' = IF result = Running THEN Success ELSE result
  /\ UNCHANGED <<argVars, envVars, bn, blockVars, histVars, inFlight, verifiedBefore, ndVars, poolVars>>

\* line 186: the inner loop's condition fails.
InnerDone ==
  /\ pc = "inner"
  /\ ~InRange(bn, batchEnd)
  /\ pc' = "wait"
  /\ UNCHANGED <<argVars, envVars, bn, batchEnd, blockVars, result, histVars, inFlight, verifiedBefore, ndVars, poolVars>>

\* lines 262-264: eg.Wait() of a group no task was given to returns nil.
Wait ==
  /\ pc = "wait"
  /\ pc' = "outer"
  /\ UNCHANGED <<argVars, envVars, bn, batchEnd, blockVars, result, histVars, inFlight, verifiedBefore, ndVars, poolVars>>

\* A return statement inside the block check: its locals are gone.
Returned ==
  /\ unf' = <<>>
  /\ dirty' = 0
  /\ i' = 1
  /\ l' = NoLog
  /\ sawAddr' = {}
  /\ sawTopic' = {}

\* lines 186-202: the unfiltered query of block bn and the baseline
\* duplicate check.
CheckBlock ==
  /\ pc = "inner"
  /\ InRange(bn, batchEnd)
  /\ \E o \in UnfilteredOutcomes :
       LET v == UnfilteredVerdict(bn, o) IN
       /\ blocksQueried' = Append(blocksQueried, bn)
       /\ methods' = methods \cup {"eth_getLogs"}
       /\ bad' = (bad \/ Class(o, FALSE) # "ok")
       /\ last' = Call("unfiltered", bn, NoVal, NoVal, o)
       /\ clobbered' = FALSE
       /\ inFlight' = IF v # Running THEN EndCheck(StartCheck(inFlight, bn), bn)
                      ELSE StartCheck(inFlight, bn)
       /\ dirty' = 0
       /\ i' = 1
       /\ l' = NoLog
       /\ sawAddr' = NewSeenSet(sawAddr)
       /\ sawTopic' = NewSeenSet(sawTopic)
       /\ addrQ' = NoQueries
       /\ pairQ' = NoPairQueries
       /\ IF v # Running
          THEN /\ result' = IF result = Running THEN v ELSE result
               /\ failBn' = IF result = Running THEN bn ELSE failBn
               /\ pc' = PcAfterError
               /\ unf' = <<>>
          ELSE /\ result' = result
               /\ failBn' = failBn
               /\ pc' = "entry"
               /\ unf' = EntriesOf(o.logs)
  /\ UNCHANGED <<argVars, envVars, bn, batchEnd, verifiedBefore, ndVars, poolVars>>

\* line 203: l takes the next element of the slice the loop was started
\* on: the unfiltered entry, or what a decode in place wrote over it.
ReadEntry ==
  /\ pc = "entry"
  /\ i <= Len(unf)
  /\ l' \in (IF i <= dirty THEN Entry ELSE {unf[i]})
  /\ clobbered' = (clobbered \/ l' # unf[i])
  /\ pc' = "examine"
  /\ UNCHANGED <<argVars, envVars, bn, batchEnd, unf, dirty, i, sawAddr, sawTopic,
                 result, addrQ, pairQ, blocksQueried, methods, bad, failBn, last,
                 inFlight, verifiedBefore, ndVars, poolVars>>

\* lines 204-206: an entry whose address was seen is skipped.
SkipEntry ==
  /\ pc = "examine"
  /\ AddrSeen(l, sawAddr)
  /\ i' = i + 1
  /\ pc' = "entry"
  /\ UNCHANGED <<argVars, envVars, bn, batchEnd, unf, dirty, l, sawAddr, sawTopic,
                 result, addrQ, pairQ, histVars, inFlight, verifiedBefore, ndVars, poolVars>>

\* lines 207-233: an entry with a new address: the by-address query, its
\* checks, and the decision whether the topic query follows.
CheckAddress ==
  /\ pc = "examine"
  /\ ~AddrSeen(l, sawAddr)
  /\ \E o \in FilteredOutcomes :
     \E t \in AliasChoices(l, o.logs, i) :
       LET v == AddrVerdict(bn, l.address, o)
           after == AliasTopics(l, t)
       IN
       /\ addrQ' = [addrQ EXCEPT ![l.address] = @ + 1]
       /\ bad' = (bad \/ Class(o, TRUE) # "ok")
       /\ last' = Call("address", bn, l.address, NoVal, o)
       /\ clobbered' = (clobbered \/ after # l)
       /\ inFlight' = IF v # Running THEN EndCheck(inFlight, bn) ELSE inFlight
       /\ IF v # Running
          THEN /\ result' = IF result = Running THEN v ELSE result
               /\ failBn' = IF result = Running THEN bn ELSE failBn
               /\ pc' = PcAfterError
               /\ Returned
          ELSE /\ result' = result
               /\ failBn' = failBn
               /\ unf' = unf
               /\ sawAddr' = sawAddr \cup {l.address}
               /\ dirty' = DecodeInto(dirty, o.logs)
               /\ l' = after
               /\ IF Len(after.topics) = 0 \/ TopicSeen(after, sawTopic)
                  THEN /\ i' = i + 1
                       /\ pc' = "entry"
                       /\ sawTopic' = sawTopic
                  ELSE /\ i' = i
                       /\ pc' = "topic"
                       /\ sawTopic' = sawTopic \cup {after.topics[1]}
  /\ UNCHANGED <<argVars, envVars, bn, batchEnd, pairQ, blocksQueried, methods,
                 verifiedBefore, ndVars, poolVars>>

\* lines 235-248: the by-(address, first topic) query and its checks.
CheckTopic ==
  /\ pc = "topic"
  /\ \E o \in FilteredOutcomes :
     \* l.Topics[0] is read after the decode only by line 246.
     \E t \in (IF noDuplicates(o.logs) # NoIndex THEN AliasChoices(l, o.logs, i)
               ELSE {NoVal}) :
       LET after == AliasTopics(l, t)
           v == TopicVerdict(bn, l.address, l.topics[1], after.topics[1], o)
       IN
       /\ pairQ' = [pairQ EXCEPT ![<<l.address, l.topics[1]>>] = @ + 1]
       /\ bad' = (bad \/ Class(o, TRUE) # "ok")
       /\ last' = Call("topic", bn, l.address, l.topics[1], o)
       /\ clobbered' = (clobbered \/ after # l)
       /\ inFlight' = IF v # Running THEN EndCheck(inFlight, bn) ELSE inFlight
       /\ IF v # Running
          THEN /\ result' = IF result = Running THEN v ELSE result
               /\ failBn' = IF result = Running THEN bn ELSE failBn
               /\ pc' = PcAfterError
               /\ Returned
          ELSE /\ result' = result
               /\ failBn' = failBn
               /\ pc' = "entry"
               /\ i' = i + 1
               /\ dirty' = DecodeInto(dirty, o.logs)
               /\ l' = after
               /\ UNCHANGED <<unf, sawAddr, sawTopic>>
  /\ UNCHANGED <<argVars, envVars, bn, batchEnd, addrQ, blocksQueried, methods,
                 verifiedBefore, ndVars, poolVars>>

\* line 248: the range loop has run over its len(resp.Result) entries.
EntriesDone ==
  /\ pc = "entry"
  /\ i > Len(unf)
  /\ pc' = "select"
  /\ UNCHANGED <<argVars, envVars, bn, batchEnd, blockVars, result, histVars, inFlight, verifiedBefore, ndVars, poolVars>>

\* The block is left: bn++ of line 186; the per-block variables go out of
\* scope.
LeaveBlock ==
  /\ bn' = (bn + 1) % Modulus
  /\ pc' = "inner"
  /\ unf' = <<>>
  /\ dirty' = 0
  /\ i' = 1
  /\ l' = NoLog
  /\ sawAddr' = NewSeenSet(sawAddr)
  /\ sawTopic' = NewSeenSet(sawTopic)
  /\ addrQ' = NoQueries
  /\ pairQ' = NoPairQueries
  /\ inFlight' = EndCheck(inFlight, bn)
  /\ verifiedBefore' = verifiedBefore \cup {a \in Addresses : addrQ[a] >= 1}

\* lines 250-256: the select at the block boundary.  A select with several
\* ready cases takes any one of them; default runs only when none is ready.
\* case <-logEvery.C
SelectTick ==
  /\ pc = "select"
  /\ tickReady
  /\ tickReady' = FALSE
  /\ LeaveBlock
  /\ UNCHANGED <<argVars, cancelled, batchEnd, result, histVars, ndVars, poolVars>>

\* case <-ctx.Done()
SelectDone ==
  /\ CancelPoint(pc)
  /\ cancelled
  /\ result' = IF result = Running THEN ErrCancelled ELSE result
  /\ pc' = "done"
  /\ inFlight' = EndCheck(inFlight, bn)
  /\ UNCHANGED <<argVars, envVars, bn, batchEnd, blockVars, histVars, verifiedBefore,
                 ndVars, poolVars>>

\* default
SelectDefault ==
  /\ pc = "select"
  /\ ~tickReady
  /\ ~cancelled
  /\ LeaveBlock
  /\ UNCHANGED <<argVars, envVars, batchEnd, result, histVars, ndVars, poolVars>>

Next ==
  \/ Tick
  \/ Cancel
  \/ BlockNumber
  \/ OuterLoop
  \/ InnerDone
  \/ Wait
  \/ CheckBlock
  \/ ReadEntry
  \/ SkipEntry
  \/ CheckAddress
  \/ CheckTopic
  \/ EntriesDone
  \/ SelectTick
  \/ SelectDone
  \/ SelectDefault

Spec == Init /\ [][Next]_vars

(***************************************************************************)
(* The duplicate check on its own: any log list, then noDuplicates.        *)
(***************************************************************************)
NDLog == [index : 0 .. NDMaxIndex]

InitND ==
  /\ blockFrom = 0
  /\ blockTo = 0
  /\ cancelled = FALSE
  /\ tickReady = FALSE
  /\ pc = "nd"
  /\ bn = 0
  /\ batchEnd = 0
  /\ unf = <<>>
  /\ dirty = 0
  /\ i = 1
  /\ l = NoLog
  /\ sawAddr = {}
  /\ sawTopic = {}
  /\ result = Running
  /\ addrQ = NoQueries
  /\ pairQ = NoPairQueries
  /\ blocksQueried = <<>>
  /\ methods = {}
  /\ bad = FALSE
  /\ failBn = NoBlock
  /\ last = NoCall
  /\ clobbered = FALSE
  /\ inFlight = {}
  /\ verifiedBefore = {}
  /\ ndLogs \in SeqsUpTo(NDLog, NDMaxLen)
  /\ ndErr = NoIndex
  /\ PoolOff

ApplyNoDuplicates ==
  /\ pc = "nd"
  /\ ndErr' = noDuplicates(ndLogs)
  /\ pc' = "nd-done"
  /\ UNCHANGED <<argVars, envVars, bn, batchEnd, blockVars, result, histVars, inFlight,
                 verifiedBefore, ndLogs, poolVars>>

NextND == ApplyNoDuplicates

SpecND == InitND /\ [][NextND]_vars

(***************************************************************************)
(* cpuBenchmark and ioBenchmark: numGoroutines goroutines take task ids    *)
(* from a channel buffered to totalTasks, which the function fills and     *)
(* closes.  The two functions are the same but for the task they run.      *)
(***************************************************************************)
driverVars == <<argVars, envVars, pc, bn, batchEnd, blockVars, result, histVars, inFlight,
                verifiedBefore, ndVars>>

\* A plausible slip: a channel with a buffer of one.
ChanCapOne(n) == IF n = 0 THEN 0 ELSE 1

\* lines 294, 320: tasks := make(chan int, totalTasks)
ChanCap(n) == n

InitWP ==
  /\ blockFrom = 0
  /\ blockTo = 0
  /\ cancelled = FALSE
  /\ tickReady = FALSE
  /\ pc = "pool"
  /\ bn = 0
  /\ batchEnd = 0
  /\ unf = <<>>
  /\ dirty = 0
  /\ i = 1
  /\ l = NoLog
  /\ sawAddr = {}
  /\ sawTopic = {}
  /\ result = Running
  /\ addrQ = NoQueries
  /\ pairQ = NoPairQueries
  /\ blocksQueried = <<>>
  /\ methods = {}
  /\ bad = FALSE
  /\ failBn = NoBlock
  /\ last = NoCall
  /\ clobbered = FALSE
  /\ inFlight = {}
  /\ verifiedBefore = {}
  /\ ndLogs = <<>>
  /\ ndErr = NoIndex
  /\ totalTasks \in 0 .. MaxTasks
  /\ numGoroutines \in 1 .. MaxWorkers
  /\ tasks = <<>>
  /\ closed = FALSE
  /\ mpc = "spawn"
  /\ started = 0
  /\ nextTask = 0
  /\ wg = 0
  /\ wpc = [w \in Workers |-> "none"]
  /\ wtask = [w \in Workers |-> NoTask]
  /\ processed = [t \in TaskIds |-> 0]

\* lines 299-301: wg.Add(1); go func() { ... }()
Spawn ==
  /\ mpc = "spawn"
  /\ started < numGoroutines
  /\ wg' = wg + 1
  /\ wpc' = [wpc EXCEPT ![started + 1] = "recv"]
  /\ started' = started + 1
  /\ UNCHANGED <<driverVars, totalTasks, numGoroutines, tasks, closed, mpc, nextTask,
                 wtask, processed>>

\* line 299: i < numGoroutines fails.
SpawnDone ==
  /\ mpc = "spawn"
  /\ started >= numGoroutines
  /\ mpc' = "send"
  /\ UNCHANGED <<driverVars, totalTasks, numGoroutines, tasks, closed, started, nextTask,
                 wg, wpc, wtask, processed>>

\* lines 310-312: tasks <- taskID, which waits while the buffer is full.
Send ==
  /\ mpc = "send"
  /\ nextTask < totalTasks
  /\ Len(tasks) < ChanCap(totalTasks)
  /\ tasks' = Append(tasks, nextTask)
  /\ nextTask' = nextTask + 1
  /\ UNCHANGED <<driverVars, totalTasks, numGoroutines, closed, mpc, started, wg, wpc,
                 wtask, processed>>

\* line 313: close(tasks)
Close ==
  /\ mpc = "send"
  /\ nextTask >= totalTasks
  /\ closed' = TRUE
  /\ mpc' = "wait"
  /\ UNCHANGED <<driverVars, totalTasks, numGoroutines, tasks, started, nextTask, wg,
                 wpc, wtask, processed>>

\* lines 315-316: wg.Wait() returns when the counter is zero.
WaitReturn ==
  /\ mpc = "wait"
  /\ wg = 0
  /\ mpc' = "returned"
  /\ UNCHANGED <<driverVars, totalTasks, numGoroutines, tasks, closed, started, nextTask,
                 wg, wpc, wtask, processed>>

\* line 303: for taskID := range tasks takes the next task id.
Receive(w) ==
  /\ wpc[w] = "recv"
  /\ tasks # <<>>
  /\ wtask' = [wtask EXCEPT ![w] = Head(tasks)]
  /\ tasks' = Tail(tasks)
  /\ wpc' = [wpc EXCEPT ![w] = "work"]
  /\ UNCHANGED <<driverVars, totalTasks, numGoroutines, closed, mpc, started, nextTask,
                 wg, processed>>

\* line 304: cpuTask(taskID) (line 330: ioTask(taskID))
Process(w) ==
  /\ wpc[w] = "work"
  /\ processed' = [processed EXCEPT ![wtask[w]] = @ + 1]
  /\ wtask' = [wtask EXCEPT ![w] = NoTask]
  /\ wpc' = [wpc EXCEPT ![w] = "recv"]
  /\ UNCHANGED <<driverVars, totalTasks, numGoroutines, tasks, closed, mpc, started,
                 nextTask, wg>>

\* lines 302-306: the range loop ends on the closed, drained channel and the
\* deferred wg.Done() runs.
Exit(w) ==
  /\ wpc[w] = "recv"
  /\ tasks = <<>>
  /\ closed
  /\ wpc' = [wpc EXCEPT ![w] = "exited"]
  /\ wg' = wg - 1
  /\ UNCHANGED <<driverVars, totalTasks, numGoroutines, tasks, closed, mpc, started,
                 nextTask, wtask, processed>>

NextWP ==
  \/ Spawn
  \/ SpawnDone
  \/ Send
  \/ Close
  \/ WaitReturn
  \/ \E w \in Workers : Receive(w)
  \/ \E w \in Workers : Process(w)
  \/ \E w \in Workers : Exit(w)

SpecWP == InitWP /\ [][NextWP]_vars

(***************************************************************************)
(* The run under the scheduling the code has: a sequential function whose  *)
(* next statement is always executed (every RPC call returns).             *)
(***************************************************************************)
Step ==
  \/ BlockNumber
  \/ OuterLoop
  \/ InnerDone
  \/ Wait
  \/ CheckBlock
  \/ ReadEntry
  \/ SkipEntry
  \/ CheckAddress
  \/ CheckTopic
  \/ EntriesDone
  \/ SelectTick
  \/ SelectDone
  \/ SelectDefault

FairSpec == Init /\ [][Next]_vars /\ WF_vars(Step)

(***************************************************************************)
(* Properties.                                                             *)
(***************************************************************************)
AddressesOf(entries) == {entries[k].address : k \in 1 .. Len(entries)}
PairsOf(entries) ==
  {<<entries[k].address, entries[k].topics[1]>> :
     k \in {j \in 1 .. Len(entries) : Len(entries[j].topics) >= 1}}
TopicQueries(t) ==
  LET RECURSIVE Sum(_)
      Sum(S) == IF S = {} THEN 0
                ELSE LET a == CHOOSE x \in S : TRUE
                     IN pairQ[<<a, t>>] + Sum(S \ {a})
  IN Sum(Addresses)
RangeSeq(from, to) == [k \in 1 .. (to - from) |-> from + k - 1]
BatchOf(b) == (b - blockFrom) \div BatchSize
TransportKinds == {"transport", "rpc"}
ExpectedKind(call) ==
  CASE call.class \in TransportKinds -> call.class
    [] call.class = "dup" -> "duplicate-index"
    [] call.class = "empty" /\ call.kind = "address" -> "address-not-indexed"
    [] call.class = "empty" /\ call.kind = "topic" -> "topic-not-indexed"
    [] OTHER -> "none"
BlockNumberKinds == {"blocknumber-transport", "blocknumber-rpc"}

\* C1: address completeness.  A by-address query that comes back empty
\* makes the run return the address-not-indexed failure naming its block
\* and address, and a block is passed (the select of line 250 is reached)
\* only if the by-address query was issued, and came back non-empty, for
\* every address carried by an entry of the block's unfiltered result.
C1_AddressCompleteness ==
  /\ (last.kind = "address" /\ last.class = "empty")
       => result = ErrAddrNotIndexed(last.block, last.address)
  /\ pc = "select" => \A a \in AddressesOf(unf) : addrQ[a] >= 1

\* C2: topic completeness.  A by-(address, topic) query that comes back
\* empty makes the run return the topic-not-indexed failure naming its
\* address and topic, and a block is passed only if that query was issued
\* for every (address, first topic) pair occurring on an entry of the
\* block's unfiltered result, in whatever order the entries come.  Stated
\* for the blocks in which no decode wrote over what the loop reads.
C2_TopicCompleteness ==
  /\ (last.kind = "topic" /\ last.class = "empty")
       => result = ErrTopicNotIndexed(last.block, last.address, last.topic)
  /\ (pc = "select" /\ ~clobbered) => \A p \in PairsOf(unf) : pairQ[p] >= 1

\* C3: the duplicate check is exact.  noDuplicates returns an error iff
\* two entries have the same log-index value, and the value it names
\* occurs at least twice.
C3_DuplicateCheckExact ==
  pc = "nd-done" =>
    /\ (ndErr # NoIndex) <=> HasDup(ndLogs)
    /\ ndErr # NoIndex =>
         Cardinality({k \in 1 .. Len(ndLogs) : ndLogs[k].index = ndErr}) >= 2

\* C3 witness: a repeated index whose two occurrences are not adjacent in
\* the input was reported.
C3_Witness ==
  /\ pc = "nd-done"
  /\ Len(ndLogs) = 3
  /\ ndLogs[1].index = ndLogs[3].index
  /\ ndLogs[2].index # ndLogs[1].index
  /\ ndErr = ndLogs[1].index

\* The unfiltered queries are issued in increasing order from blockFrom,
\* one per block, and never outside [blockFrom, blockTo).
C4_InOrder ==
  \A k \in 1 .. Len(blocksQueried) :
    blocksQueried[k] = blockFrom + k - 1 /\ blocksQueried[k] < blockTo

\* C4: range coverage.  For any blockFrom <= blockTo, the unfiltered
\* queries are issued in increasing order, one per block, never outside
\* the range, and unless a check fails or cancellation is signalled the
\* query is issued for every block of [blockFrom, blockTo).
C4_RangeCoverage ==
  /\ [](C4_InOrder)
  /\ <>(result # Running \/ cancelled \/ Len(blocksQueried) = blockTo - blockFrom)

\* C5: result soundness.  Success is returned only when every block of the
\* range was queried and no response was an error, carried a repeated
\* index or was an empty filtered result; once a response is such, the run
\* has ended with one failure, never success, and the failure is that of
\* the block being checked, every block before which passed.
C5_ResultSoundness ==
  /\ result = Success =>
       /\ ~bad
       /\ failBn = NoBlock
       /\ blocksQueried = RangeSeq(blockFrom, blockTo)
  /\ bad =>
       /\ pc = "done"
       /\ result.kind = ExpectedKind(last)
       /\ result.block \in {NoBlock, last.block}
       /\ failBn = last.block
       /\ blocksQueried = RangeSeq(blockFrom, failBn + 1)

\* C5 witness: a run over two batches returned success.
C5_Witness ==
  /\ pc = "done"
  /\ result = Success
  /\ Len(blocksQueried) > BatchSize

\* C6: fail-fast.  Once a block check has failed at block failBn, the run
\* has ended and no query was issued for a block of a later batch.
C6_FailFast ==
  failBn # NoBlock =>
    /\ pc = "done"
    /\ \A k \in 1 .. Len(blocksQueried) : BatchOf(blocksQueried[k]) <= BatchOf(failBn)
    /\ BatchOf(last.block) <= BatchOf(failBn)

\* C6 witness: a check failed in the first batch of a range that has a
\* second batch.
C6_Witness ==
  /\ failBn # NoBlock
  /\ BatchOf(failBn) = 0
  /\ blockTo - blockFrom > BatchSize
  /\ failBn > blockFrom

\* C7: cancellation at block boundaries.  A select that runs with the
\* cancellation signal set ends the run with the cancelled failure, also
\* when the ticker is ready at the same boundary.
C7_CancelAtBoundary ==
  [][(pc = "select" /\ cancelled /\ pc' # "select")
       => (pc' = "done" /\ result' = ErrCancelled)]_vars

\* C8: transport-error context.  When an eth_getLogs call of block b
\* fails with a transport error or comes back as an RPC error response,
\* the failure returned is of the transport kind and carries b.
C8_TransportContext ==
  last.class \in TransportKinds =>
    /\ result.kind \in TransportKinds
    /\ result.block = last.block

C10_AtMostOnce ==
  /\ \A a \in Addresses : addrQ[a] <= 1
  /\ \A t \in TopicVals : TopicQueries(t) <= 1

\* C10 witness: a block whose two entries carry the same address and the
\* same first topic was passed with one query for each.
C10_Witness ==
  /\ pc = "select"
  /\ ~clobbered
  /\ Len(unf) = 2
  /\ unf[1] = unf[2]
  /\ Len(unf[1].topics) = 1
  /\ addrQ[unf[1].address] = 1
  /\ TopicQueries(unf[1].topics[1]) = 1

\* Number of by-address and of by-(address, topic) queries issued so far in
\* the block being checked.
AddressQueries ==
  LET RECURSIVE Sum(_)
      Sum(S) == IF S = {} THEN 0
                ELSE LET a == CHOOSE x \in S : TRUE
                     IN addrQ[a] + Sum(S \ {a})
  IN Sum(Addresses)
PairQueries ==
  LET RECURSIVE Sum(_)
      Sum(S) == IF S = {} THEN 0
                ELSE LET t == CHOOSE x \in S : TRUE
                     IN TopicQueries(t) + Sum(S \ {t})
  IN Sum(TopicVals)

\* The block of the scenario: two entries with one address, one of them
\* with a single topic and the other with none, in either order.
C11_Scenario ==
  /\ Len(unf) = 2
  /\ unf[1].address = unf[2].address
  /\ {Len(unf[1].topics), Len(unf[2].topics)} = {0, 1}

\* C11: filtered-query count.  A block of the scenario whose filtered
\* queries come back non-empty and duplicate-free is passed with exactly
\* two filtered queries, one by address and one by (address, topic),
\* whichever of the two entries comes first.  Stated for the blocks in
\* which no decode wrote over what the loop reads.
C11_TwoFilteredQueries ==
  (pc = "select" /\ ~clobbered /\ C11_Scenario)
    => (AddressQueries = 1 /\ PairQueries = 1)

\* C12: the baseline duplicate check precedes filtering.  When the
\* unfiltered result of block bn carries a repeated log-index value, the
\* run has ended with the duplicate-index failure naming bn and one of the
\* repeated values, and no by-address or by-(address, topic) query was
\* issued for bn: the unfiltered query is the last call of the run.
C12_BaselineFirst ==
  (last.kind = "unfiltered" /\ last.dups # {}) =>
    /\ pc = "done"
    /\ \E idx \in last.dups : result = ErrDupBlock(last.block, idx)
    /\ failBn = last.block
    /\ AddressQueries = 0
    /\ PairQueries = 0

\* C12 witness: the unfiltered query of a block came back with a repeated
\* index and the run ended on it.
C12_Witness ==
  /\ pc = "done"
  /\ last.kind = "unfiltered"
  /\ last.dups # {}
  /\ blocksQueried = <<last.block>>
  /\ result.kind = "duplicate-index"

\* The blocks whose check has completed.
Completed == {blocksQueried[k] : k \in 1 .. Len(blocksQueried)} \ inFlight

\* C13: batch barrier and concurrency cap.  The number of block checks in
\* flight never exceeds the cap, whatever value of at least MinLimit it
\* has, and when a query of a block of a batch has been issued, the check
\* of every block of the earlier batches has completed.
C13_BarrierAndCap ==
  /\ Cardinality(inFlight) <= MinLimit
  /\ \A k \in 1 .. Len(blocksQueried) :
       \A b \in blockFrom .. (blockTo - 1) :
         BatchOf(b) < BatchOf(blocksQueried[k]) => b \in Completed

\* C13 witness: the first block of the second batch is in flight.
C13_Witness ==
  /\ inFlight = {blockFrom + BatchSize}
  /\ Len(blocksQueried) = BatchSize + 1
  /\ pc = "examine"

\* C14: block checks are not serialized.  The unfiltered query of a block
\* that is not the first of its batch is issued while the check of the
\* block before it is still in flight, so that a state with the checks of
\* two blocks of one batch in flight is reached.
C14_NotSerialized ==
  [][(/\ Len(blocksQueried') = Len(blocksQueried) + 1
      /\ Len(blocksQueried) >= 1
      /\ BatchOf(bn) = BatchOf(blocksQueried[Len(blocksQueried)]))
       => blocksQueried[Len(blocksQueried)] \in inFlight]_vars

\* What the select of line 250 does when no tick is pending: the run ends
\* as cancelled if cancellation is signalled, and goes on to the next block
\* otherwise.  Stated on the variables of the program, the pending tick
\* left aside.
SelectWithoutTick ==
  IF cancelled
  THEN /\ pc' = "done"
       /\ result' = ErrCancelled
       /\ bn' = bn
  ELSE /\ pc' = "inner"
       /\ result' = result
       /\ bn' = (bn + 1) % Modulus

\* C15: progress reporting does not affect the result.  With the same
\* responses and the same cancellation timing, every step the run takes at
\* a block boundary is the step it takes there when no tick is pending, so
\* the result and the blocks checked do not depend on the ticker.
C15_TickerNoEffect ==
  [][(pc = "select" /\ pc' # "select") => SelectWithoutTick]_vars

\* C16: the seen-sets are block-local.  Both are empty when the loop over a
\* block's entries starts, and a block whose first entry carries an address
\* that was verified in an earlier block of the run is passed only with the
\* by-address query issued again for it, and with the by-(address, topic)
\* query issued for its first topic.
C16_SeenSetsBlockLocal ==
  /\ (pc = "entry" /\ i = 1) => (sawAddr = {} /\ sawTopic = {})
  /\ (pc = "select" /\ Len(unf) >= 1 /\ unf[1].address \in verifiedBefore) =>
       /\ addrQ[unf[1].address] = 1
       /\ sawAddr \subseteq {a \in Addresses : addrQ[a] = 1}
       /\ (~clobbered /\ Len(unf[1].topics) >= 1) =>
            pairQ[<<unf[1].address, unf[1].topics[1]>>] = 1

\* C16 witness: a block carrying the address verified in an earlier block
\* was passed with its by-address and by-(address, topic) queries issued.
C16_Witness ==
  /\ pc = "select"
  /\ Len(blocksQueried) >= 2
  /\ Len(unf) = 1
  /\ unf[1].address \in verifiedBefore
  /\ Len(unf[1].topics) = 1
  /\ addrQ[unf[1].address] = 1
  /\ pairQ[<<unf[1].address, unf[1].topics[1]>>] = 1

\* C17: driver termination under fixed-width arithmetic.  For every
\* blockFrom <= blockTo, also where bn+10 wraps around, and with every RPC
\* call returning, the run ends, and every iteration of the outer loop
\* enters its inner loop with a batch end above bn, so that the block
\* counter has increased when the iteration is over.
C17_Terminates ==
  /\ <>(pc = "done")
  /\ [][(pc = "outer" /\ pc' = "inner") => bn < batchEnd']_vars

\* C18: cancelled never masks a violation.  The cancelled result is
\* returned only at the boundary of a block whose queries all came back
\* good; once a response is bad the failure returned is that of the check,
\* also with cancellation signalled; and a run over a non-empty range whose
\* eth_blockNumber call succeeded has issued the first block's unfiltered
\* query whenever it ends, however early cancellation was signalled.
C18_CancelNeverMasks ==
  /\ result = ErrCancelled =>
       /\ ~bad
       /\ cancelled
       /\ failBn = NoBlock
       /\ Len(blocksQueried) >= 1
       /\ last.block = blocksQueried[Len(blocksQueried)]
       /\ last.class = "ok"
  /\ bad => result.kind = ExpectedKind(last)
  /\ (pc = "done" /\ blockFrom < blockTo /\ result.kind \notin BlockNumberKinds) =>
       /\ Len(blocksQueried) >= 1
       /\ blocksQueried[1] = blockFrom

\* C18 witness: cancellation was signalled before the queries of the
\* second block, whose by-address query came back empty: the run returned
\* address-not-indexed.
C18_Witness ==
  /\ pc = "done"
  /\ cancelled
  /\ bad
  /\ Len(blocksQueried) = 2
  /\ last.kind = "address"
  /\ result = ErrAddrNotIndexed(last.block, last.address)

\* C19: the loop examines the unfiltered entries.  Every iteration of the
\* loop over a block's entries is for one position of the unfiltered
\* result, and the address and topics it examines are those of the
\* unfiltered entry at that position, whatever the filtered responses
\* decoded into resp in the meantime.
C19_LoopExaminesUnfiltered ==
  pc \in {"examine", "topic"} => (i <= Len(unf) /\ l = unf[i])

\* C20: worker-pool completeness.  With at least one goroutine, under every
\* interleaving: no task id is processed twice and none is held by two
\* goroutines; the send of line 311 never finds the buffer full; a
\* goroutine exits only after close(tasks); the function never comes to a
\* stop before it returns; and when it returns every task id of
\* 0 .. totalTasks-1 has been processed exactly once and every goroutine
\* has exited.
C20_PoolComplete ==
  /\ \A t \in TaskIds : processed[t] <= 1
  /\ \A t \in TaskIds :
       processed[t]
         + Cardinality({w \in Workers : wtask[w] = t})
         + Cardinality({k \in 1 .. Len(tasks) : tasks[k] = t})
         = (IF t < nextTask THEN 1 ELSE 0)
  /\ (mpc = "send" /\ nextTask < totalTasks) => Len(tasks) < ChanCap(totalTasks)
  /\ \A w \in Workers : wpc[w] = "exited" => closed
  /\ mpc # "returned" => ENABLED NextWP
  /\ mpc = "returned" =>
       /\ \A t \in TaskIds : processed[t] = (IF t < totalTasks THEN 1 ELSE 0)
       /\ \A w \in Workers : wpc[w] = (IF w <= numGoroutines THEN "exited" ELSE "none")
       /\ wg = 0
       /\ tasks = <<>>

\* C20 witness: the function returned after MaxWorkers goroutines processed
\* MaxTasks tasks.
C20_Witness ==
  /\ mpc = "returned"
  /\ totalTasks = MaxTasks
  /\ numGoroutines = MaxWorkers
  /\ \A t \in TaskIds : processed[t] = 1

=============================================================================
